---------------------------- MODULE Spec2Model ----------------------------
(***************************************************************************)
(* Adapter pool of @moleculer/database (src/src/methods.js): getAdapter,   *)
(* maintenanceAdapters, _connect, _disconnect and _disconnectAll.          *)
(*                                                                         *)
(* JavaScript runs every handler to completion between two awaits.  The    *)
(* variable "running" names the call that holds the thread inside such a   *)
(* synchronous section; while it is not Idle no other call may step.  The  *)
(* steps of one synchronous section are kept apart so that the order of    *)
(* its assignments (register, then evict, then call disconnect) is visible *)
(* as states.                                                              *)
(***************************************************************************)
EXTENDS Integers, Sequences, FiniteSets, TLC

\* ---- bounds ----
NumCalls == 3        \* getAdapter calls issued in one behaviour of Spec
MaxActive == 2       \* getAdapter calls in progress at once in Spec
SeqCalls == 4        \* getAdapter calls issued in one behaviour of SpecSeq
SeqActive == 1       \* getAdapter calls in progress at once in SpecSeq
MaxHandles == 3      \* adapters created in one behaviour
NumKeys == 3         \* distinct tenant hashes getAdapterByContext may return
MaxClock == 2        \* last value of Date.now() the model reaches
MaxFails == 1        \* connect / hook failures injected in one behaviour
MaxShutdowns == 1    \* _disconnectAll invocations in one behaviour
MaxLimit == 2        \* largest configured mixinOpts.maximumAdapters
NumScopeNames == 2   \* scope names the settings and the callers use
MaxScopeList == 2    \* longest list of scope names
NumTopKeys == 1      \* top-level keys of a query
NumSubKeys == 2      \* keys of the object a top-level key may hold
NumAtoms == 2        \* values that are not objects
MaxLeaves == 1       \* leaves of a query or static scope given as input
MaxBatch == 2        \* elements of a batch, and entities a batch query finds
MaxFields == 1       \* fields of params besides the identifier
NumFieldNames == 2   \* names a query key or a field may have
NumColumns == 3      \* column names: the field names and one more
MaxQueryKeys == 2    \* keys of one object of a query

Calls == 1..(IF NumCalls > SeqCalls THEN NumCalls ELSE SeqCalls)
Keys == 1..NumKeys
Handles == 1..MaxHandles     \* Adapters.resolve makes a new object on every call
Idle == 0                    \* nobody is inside a synchronous section
ShutdownTask == 0 - 1        \* _disconnectAll is inside its synchronous section
NoHandle == 0
NoKey == 0

VARIABLES
    cfg,          \* mixinOpts and the registered hooks (fixed after construction)
    pool,         \* this.adapters: Map in insertion order, items {hash, adapter, touched}
    now,          \* the last value Date.now() returned
    nextHandle,   \* identity of the next object Adapters.resolve returns
    running,      \* call inside a synchronous section, or Idle
    call,         \* per getAdapter call: position and locals
    handle,       \* per adapter object: what has been invoked on it so far
    removed,      \* adapters whose pool entry was deleted or cleared
    shutdown,     \* _disconnectAll: position, number of invocations, snapshot
    load,         \* what the callers do: calls issued in all, and at once (fixed)
    scopeIn,      \* one _applyScopes call: params, settings and checkScopeAuthority (fixed)
    scopeRun,     \* one _applyScopes call: position, locals and what it has invoked
    opIn,         \* one entity operation: its kind, params, opts and the settings (fixed)
    opRun,        \* one entity operation: position, locals and what it has invoked
    convIn,       \* one query conversion: this.$fields, the query, the recursive flag (fixed)
    convRun       \* one query conversion: position, res and cacheColumnName

scopeVars == <<scopeIn, scopeRun>>
opVars == <<opIn, opRun>>
convVars == <<convIn, convRun>>
poolVars == <<cfg, pool, now, nextHandle, running, call, handle, removed, shutdown, load>>

vars == <<cfg, pool, now, nextHandle, running, call, handle, removed, shutdown, load, scopeVars, opVars, convVars>>

\* ---- configuration ----
Configs ==
    [autoReconnect : BOOLEAN,
     maximumAdapters : 0..MaxLimit,     \* 0 stands for "not configured" (null)
     adapterConnected : BOOLEAN,        \* this.$hooks["adapterConnected"] registered
     adapterDisconnected : BOOLEAN,     \* this.$hooks["adapterDisconnected"] registered
     hasDisconnect : BOOLEAN]           \* _.isFunction(adapter.disconnect)

\* ---- pure helpers on the pool ----
Item(h, a, t) == [hash |-> h, adapter |-> a, touched |-> t]

HandlesOf(m) == {m[i].adapter : i \in 1..Len(m)}
PoolHandles == HandlesOf(pool)

\* this.adapters.get(hash): positions holding the key (at most one)
MapGetNothing(m, k) == {}
MapGet(m, k) == {i \in 1..Len(m) : m[i].hash = k}

\* this.adapters.set(hash, item): replace in place, or append a new key
MapSet(m, k, item) ==
    IF \E i \in 1..Len(m) : m[i].hash = k
    THEN [i \in 1..Len(m) |-> IF m[i].hash = k THEN item ELSE m[i]]
    ELSE Append(m, item)

RECURSIVE SeqFilter(_, _)
SeqFilter(s, keep) ==
    IF s = <<>> THEN <<>>
    ELSE IF s[1] \in keep THEN <<s[1]>> \o SeqFilter(Tail(s), keep)
         ELSE SeqFilter(Tail(s), keep)

\* this.adapters.delete(k)
MapDelete(m, k) == SeqFilter(m, {m[i] : i \in {j \in 1..Len(m) : m[j].hash # k}})

\* item.touched = Date.now() on the entry found for the key
TouchAll(m, k, t) == [i \in 1..Len(m) |-> [m[i] EXCEPT !.touched = t]]
Touch(m, k, t) == [i \in 1..Len(m) |-> IF m[i].hash = k THEN [m[i] EXCEPT !.touched = t] ELSE m[i]]

\* adapters.sort((a, b) => a.touched - b.touched): stable, ascending
InsertByTouched(sorted, x) ==
    LET k == Cardinality({i \in 1..Len(sorted) : sorted[i].touched <= x.touched})
    IN SubSeq(sorted, 1, k) \o <<x>> \o SubSeq(sorted, k + 1, Len(sorted))

InsertNewestFirst(sorted, x) ==
    LET k == Cardinality({i \in 1..Len(sorted) : sorted[i].touched > x.touched})
    IN SubSeq(sorted, 1, k) \o <<x>> \o SubSeq(sorted, k + 1, Len(sorted))

RECURSIVE SortNewestFirst(_)
SortNewestFirst(s) ==
    IF s = <<>> THEN <<>>
    ELSE InsertNewestFirst(SortNewestFirst(SubSeq(s, 1, Len(s) - 1)), s[Len(s)])

RECURSIVE SortByTouched(_)
SortByTouched(s) ==
    IF s = <<>> THEN <<>>
    ELSE InsertByTouched(SortByTouched(SubSeq(s, 1, Len(s) - 1)), s[Len(s)])

\* surplus = this.adapters.size - mixinOpts.maximumAdapters
SurplusLate(size, maximum) == size - maximum - 1
Surplus(size, maximum) == size - maximum

\* closeable = adapters.slice(0, surplus), empty when maintenance returns early
Closeable(m, maximum) ==
    IF maximum < 1 THEN <<>>
    ELSE IF Surplus(Len(m), maximum) > 0
         THEN SubSeq(SortByTouched(m), 1, Surplus(Len(m), maximum))
         ELSE <<>>

\* _disconnect: find(item => item.adapter == adapter), then delete(item.hash)
RemoveNothing(m, a) == m
RemoveByHash(m, a) == MapDelete(m, handle[a].hash)
RemoveByAdapter(m, a) ==
    LET found == {i \in 1..Len(m) : m[i].adapter = a}
    IN IF found = {} THEN m
       ELSE MapDelete(m, m[CHOOSE i \in found : \A j \in found : i <= j].hash)

\* this.adapters.clear()
ClearKeepsAll(m) == m
ClearPool(m) == <<>>

\* the catch branch of connecting(): retry only when mixinOpts.autoReconnect
RetryAlways(c) == TRUE
ShouldRetry(c) == c.autoReconnect

\* ---- initial state ----
NewCall ==
    [pc |-> "idle", hash |-> NoKey, adapter |-> NoHandle, role |-> "none",
     closeable |-> <<>>, closed |-> <<>>, target |-> NoHandle,
     joinedInFlight |-> FALSE, startRemoved |-> {}, error |-> "none"]

NewHandle ==
    [hash |-> NoKey, connStarts |-> 0, attempts |-> 0, fails |-> 0, waits |-> 0,
     connected |-> 0, connHookCalls |-> 0, hookFails |-> 0,
     discCalls |-> 0, discHookCalls |-> 0, job |-> "none", snapshot |-> FALSE]

Loads == {[calls |-> NumCalls, active |-> MaxActive], [calls |-> SeqCalls, active |-> SeqActive]}

Start ==
    /\ cfg \in Configs
    /\ pool = <<>>
    /\ now = 0
    /\ nextHandle = 1
    /\ running = Idle
    /\ call = [c \in Calls |-> NewCall]
    /\ handle = [h \in Handles |-> NewHandle]
    /\ removed = {}
    /\ shutdown = [pc |-> "idle", count |-> 0, snapshot |-> <<>>]

\* no _applyScopes call and no entity operation is made
NoScopeCall == scopeIn = [kind |-> "none"] /\ scopeRun = [pc |-> "none"]

NoOperation == opIn = [kind |-> "none"] /\ opRun = [pc |-> "none"]
NoConversion == convIn = [kind |-> "none"] /\ convRun = [pc |-> "none"]

\* concurrent callers
Init == Start /\ load = [calls |-> NumCalls, active |-> MaxActive] /\ NoScopeCall /\ NoOperation /\ NoConversion

\* one caller after the other, and one call more
InitSeq == Start /\ load = [calls |-> SeqCalls, active |-> SeqActive] /\ NoScopeCall /\ NoOperation /\ NoConversion

\* ---- the clock ----
\* Date.now() never runs backwards: a reading is the last reading or later
Readings == {t \in 0..MaxClock : now <= t /\ t <= now + 1}

\* ---- getAdapter ----
\* the creation of adapter a is still in flight: its creating call has not settled
InFlight(a) ==
    \E d \in Calls : /\ call[d].role = "creator"
                     /\ call[d].adapter = a
                     /\ call[d].pc \notin {"done", "failed"}

Active == {d \in Calls : call[d].pc \notin {"idle", "done", "failed"}}

\* Calls and hashes are numbered in the order they first occur.
Fresh(c, k) ==
    /\ call[c].pc = "idle"
    /\ c <= load.calls
    /\ \A d \in Calls : d < c => call[d].pc # "idle"
    /\ Cardinality(Active) < load.active
    /\ \A j \in Keys : j < k => \E h \in Handles : handle[h].hash = j

\* lines 27-32: getAdapterByContext(ctx) is awaited before the map is read, so
\* the first step of a call that reads shared state is the lookup with the
\* hash k of its context.  The entry exists: touch it and return its adapter.
LookupHit(c, k) ==
    /\ running = Idle
    /\ Fresh(c, k)
    /\ MapGet(pool, k) # {}
    /\ \E t \in Readings :
         LET i == CHOOSE j \in MapGet(pool, k) : TRUE
         IN /\ now' = t
            /\ pool' = Touch(pool, k, t)
            /\ call' = [call EXCEPT ![c] =
                          [NewCall EXCEPT !.pc = "done", !.role = "reuser",
                                          !.hash = k,
                                          !.adapter = pool[i].adapter,
                                          !.startRemoved = removed,
                                          !.joinedInFlight = InFlight(pool[i].adapter)]]
    /\ UNCHANGED <<cfg, nextHandle, running, handle, removed, shutdown, load, scopeVars, opVars, convVars>>

\* lines 27-28, 34-37: no entry: resolve and init a new adapter and register it
LookupMiss(c, k) ==
    /\ running = Idle
    /\ Fresh(c, k)
    /\ MapGet(pool, k) = {}
    /\ nextHandle \in Handles
    /\ \E t \in Readings :
         /\ now' = t
         /\ pool' = MapSet(pool, k, Item(k, nextHandle, t))
    /\ handle' = [handle EXCEPT ![nextHandle].hash = k]
    /\ nextHandle' = nextHandle + 1
    /\ call' = [call EXCEPT ![c] =
                  [NewCall EXCEPT !.pc = "registered", !.role = "creator",
                                  !.hash = k, !.adapter = nextHandle,
                                  !.startRemoved = removed]]
    /\ running' = c
    /\ UNCHANGED <<cfg, removed, shutdown, load, scopeVars, opVars, convVars>>

\* ---- maintenanceAdapters ----
\* lines 61-67: early return, or compute the closeable slice
MaintenanceStart(c) ==
    /\ running = c
    /\ call[c].pc = "registered"
    /\ LET cl == Closeable(pool, cfg.maximumAdapters)
       IN IF cl = <<>>
          THEN /\ call' = [call EXCEPT ![c].pc = "maintained"]
               /\ running' = Idle
          ELSE /\ call' = [call EXCEPT ![c].pc = "maintLoop", ![c].closeable = cl]
               /\ running' = c
    /\ UNCHANGED <<cfg, pool, now, nextHandle, handle, removed, shutdown, load, scopeVars, opVars, convVars>>

\* lines 71-72 and 116-119: _disconnect(adapter, hash) of the next closeable
\* item removes the entry that holds the adapter
MaintRemove(c) ==
    /\ running = c
    /\ call[c].pc = "maintLoop"
    /\ LET it == Head(call[c].closeable)
       IN /\ pool' = RemoveByAdapter(pool, it.adapter)
          /\ removed' = removed \cup (PoolHandles \ HandlesOf(RemoveByAdapter(pool, it.adapter)))
          /\ call' = [call EXCEPT ![c].pc = "removedItem", ![c].target = it.adapter,
                                  ![c].closeable = Tail(call[c].closeable),
                                  ![c].closed = Append(call[c].closed, it)]
    /\ UNCHANGED <<cfg, now, nextHandle, running, handle, shutdown, load, scopeVars, opVars, convVars>>

\* line 72 resumes after _disconnect returned: the next closeable item, or the
\* pass is over and getAdapter waits for the promise of maintenanceAdapters
Returned(c) ==
    IF call[c].closeable = <<>>
    THEN [call EXCEPT ![c].pc = "maintained", ![c].target = NoHandle]
    ELSE [call EXCEPT ![c].pc = "maintLoop", ![c].target = NoHandle]

ReturnedTo(c) == IF call[c].closeable = <<>> THEN Idle ELSE c

\* lines 122-129 up to the first await of _disconnect
MaintCallDisconnect(c) ==
    /\ running = c
    /\ call[c].pc = "removedItem"
    /\ LET a == call[c].target
       IN IF cfg.hasDisconnect
          THEN /\ handle' = [handle EXCEPT ![a].discCalls = @ + 1]
               /\ call' = [call EXCEPT ![c].pc = "disconnecting"]
               /\ running' = Idle
          ELSE IF cfg.adapterDisconnected
          THEN /\ handle' = [handle EXCEPT ![a].discHookCalls = @ + 1]
               /\ call' = [call EXCEPT ![c].pc = "discHook"]
               /\ running' = Idle
          ELSE /\ handle' = handle
               /\ call' = Returned(c)
               /\ running' = ReturnedTo(c)
    /\ UNCHANGED <<cfg, pool, now, nextHandle, removed, shutdown, load, scopeVars, opVars, convVars>>

\* line 122 resumes: adapter.disconnect() settled; lines 128-129
MaintDisconnected(c) ==
    /\ running = Idle
    /\ call[c].pc = "disconnecting"
    /\ LET a == call[c].target
       IN IF cfg.adapterDisconnected
          THEN /\ handle' = [handle EXCEPT ![a].discHookCalls = @ + 1]
               /\ call' = [call EXCEPT ![c].pc = "discHook"]
               /\ running' = Idle
          ELSE /\ handle' = handle
               /\ call' = Returned(c)
               /\ running' = ReturnedTo(c)
    /\ UNCHANGED <<cfg, pool, now, nextHandle, removed, shutdown, load, scopeVars, opVars, convVars>>

\* line 129 resumes: the adapterDisconnected hook settled
MaintHookDone(c) ==
    /\ running = Idle
    /\ call[c].pc = "discHook"
    /\ call' = Returned(c)
    /\ running' = ReturnedTo(c)
    /\ UNCHANGED <<cfg, pool, now, nextHandle, handle, removed, shutdown, load, scopeVars, opVars, convVars>>

\* ---- _connect ----
\* lines 39, 85-88 and 104: the promise is made and connecting() calls adapter.connect()
ConnectStart(c) ==
    /\ running = Idle
    /\ call[c].pc = "maintained"
    /\ handle' = [handle EXCEPT ![call[c].adapter].connStarts = @ + 1,
                                ![call[c].adapter].attempts = @ + 1]
    /\ call' = [call EXCEPT ![c].pc = "connecting", ![c].closed = <<>>]
    /\ UNCHANGED <<cfg, pool, now, nextHandle, running, removed, shutdown, load, scopeVars, opVars, convVars>>

\* lines 92-101: the catch branch, entered with the error of kind e
Caught(c, e) ==
    IF ShouldRetry(cfg)
    THEN [call EXCEPT ![c].pc = "backoff"]
    ELSE [call EXCEPT ![c].pc = "failed", ![c].error = e]

RECURSIVE SumFails(_)
SumFails(hs) ==
    IF hs = {} THEN 0
    ELSE LET h == CHOOSE x \in hs : TRUE
         IN handle[h].fails + handle[h].hookFails + SumFails(hs \ {h})

\* the model stops injecting failures after MaxFails of them
CanFail == SumFails(Handles) < MaxFails

\* lines 88-91: adapter.connect() resolved
ConnectOk(c) ==
    /\ running = Idle
    /\ call[c].pc = "connecting"
    /\ LET a == call[c].adapter
       IN IF cfg.adapterConnected
          THEN /\ handle' = [handle EXCEPT ![a].connected = @ + 1,
                                           ![a].connHookCalls = @ + 1]
               /\ call' = [call EXCEPT ![c].pc = "connHook"]
          ELSE /\ handle' = [handle EXCEPT ![a].connected = @ + 1]
               /\ call' = [call EXCEPT ![c].pc = "done"]
    /\ UNCHANGED <<cfg, pool, now, nextHandle, running, removed, shutdown, load, scopeVars, opVars, convVars>>

\* lines 88, 92-101: adapter.connect() rejected
ConnectFail(c) ==
    /\ running = Idle
    /\ call[c].pc = "connecting"
    /\ CanFail
    /\ LET a == call[c].adapter
       IN handle' = [handle EXCEPT ![a].fails = @ + 1,
                                   ![a].waits = IF ShouldRetry(cfg) THEN @ + 1 ELSE @]
    /\ call' = Caught(c, "connect")
    /\ UNCHANGED <<cfg, pool, now, nextHandle, running, removed, shutdown, load, scopeVars, opVars, convVars>>

\* lines 90-91, 40-45: the adapterConnected hook resolved; getAdapter returns
ConnHookOk(c) ==
    /\ running = Idle
    /\ call[c].pc = "connHook"
    /\ call' = [call EXCEPT ![c].pc = "done"]
    /\ UNCHANGED <<cfg, pool, now, nextHandle, running, handle, removed, shutdown, load, scopeVars, opVars, convVars>>

\* lines 90, 92-101: the adapterConnected hook rejected, caught by the same catch
ConnHookFail(c) ==
    /\ running = Idle
    /\ call[c].pc = "connHook"
    /\ CanFail
    /\ LET a == call[c].adapter
       IN handle' = [handle EXCEPT ![a].hookFails = @ + 1,
                                   ![a].waits = IF ShouldRetry(cfg) THEN @ + 1 ELSE @]
    /\ call' = Caught(c, "hook")
    /\ UNCHANGED <<cfg, pool, now, nextHandle, running, removed, shutdown, load, scopeVars, opVars, convVars>>

\* lines 95-98: the timer fires and connecting() calls adapter.connect() again
Reconnect(c) ==
    /\ running = Idle
    /\ call[c].pc = "backoff"
    /\ handle' = [handle EXCEPT ![call[c].adapter].attempts = @ + 1]
    /\ call' = [call EXCEPT ![c].pc = "connecting"]
    /\ UNCHANGED <<cfg, pool, now, nextHandle, running, removed, shutdown, load, scopeVars, opVars, convVars>>

\* ---- _disconnectAll ----
\* lines 136-137: snapshot the values and clear the map
DisconnectAllClear ==
    /\ running = Idle
    /\ shutdown.pc = "idle"
    /\ shutdown.count < MaxShutdowns
    /\ shutdown' = [pc |-> "cleared", count |-> shutdown.count + 1, snapshot |-> pool]
    /\ pool' = ClearPool(pool)
    /\ removed' = removed \cup (PoolHandles \ HandlesOf(ClearPool(pool)))
    /\ handle' = [h \in Handles |->
                    IF h \in PoolHandles THEN [handle[h] EXCEPT !.snapshot = TRUE]
                    ELSE handle[h]]
    /\ running' = ShutdownTask
    /\ UNCHANGED <<cfg, now, nextHandle, call, load, scopeVars, opVars, convVars>>

RECURSIVE RemoveEach(_, _)
RemoveEach(m, s) ==
    IF s = <<>> THEN m ELSE RemoveEach(RemoveByAdapter(m, s[1].adapter), Tail(s))

\* lines 140-142: adapters.map runs every _disconnect up to its first await
DisconnectAllStart ==
    /\ running = ShutdownTask
    /\ shutdown.pc = "cleared"
    /\ pool' = RemoveEach(pool, shutdown.snapshot)
    /\ removed' = removed \cup (PoolHandles \ HandlesOf(RemoveEach(pool, shutdown.snapshot)))
    /\ handle' = [h \in Handles |->
                    IF h \notin HandlesOf(shutdown.snapshot) THEN handle[h]
                    ELSE IF cfg.hasDisconnect
                    THEN [handle[h] EXCEPT !.discCalls = @ + 1, !.job = "disconnecting"]
                    ELSE IF cfg.adapterDisconnected
                    THEN [handle[h] EXCEPT !.discHookCalls = @ + 1, !.job = "hook"]
                    ELSE [handle[h] EXCEPT !.job = "done"]]
    /\ shutdown' = [shutdown EXCEPT !.pc = "idle", !.snapshot = <<>>]
    /\ running' = Idle
    /\ UNCHANGED <<cfg, now, nextHandle, call, load, scopeVars, opVars, convVars>>

\* line 122 resumes in the _disconnect of snapshot adapter h; lines 128-129
ShutdownDisconnected(h) ==
    /\ running = Idle
    /\ handle[h].job = "disconnecting"
    /\ handle' = IF cfg.adapterDisconnected
                 THEN [handle EXCEPT ![h].discHookCalls = @ + 1, ![h].job = "hook"]
                 ELSE [handle EXCEPT ![h].job = "done"]
    /\ UNCHANGED <<cfg, pool, now, nextHandle, running, call, removed, shutdown, load, scopeVars, opVars, convVars>>

\* line 129 resumes in the _disconnect of snapshot adapter h
ShutdownHookDone(h) ==
    /\ running = Idle
    /\ handle[h].job = "hook"
    /\ handle' = [handle EXCEPT ![h].job = "done"]
    /\ UNCHANGED <<cfg, pool, now, nextHandle, running, call, removed, shutdown, load, scopeVars, opVars, convVars>>

\* ---- specification ----
Next ==
    \/ \E c \in Calls, k \in Keys : LookupHit(c, k)
    \/ \E c \in Calls, k \in Keys : LookupMiss(c, k)
    \/ \E c \in Calls : MaintenanceStart(c)
    \/ \E c \in Calls : MaintRemove(c)
    \/ \E c \in Calls : MaintCallDisconnect(c)
    \/ \E c \in Calls : MaintDisconnected(c)
    \/ \E c \in Calls : MaintHookDone(c)
    \/ \E c \in Calls : ConnectStart(c)
    \/ \E c \in Calls : ConnectOk(c)
    \/ \E c \in Calls : ConnectFail(c)
    \/ \E c \in Calls : ConnHookOk(c)
    \/ \E c \in Calls : ConnHookFail(c)
    \/ \E c \in Calls : Reconnect(c)
    \/ DisconnectAllClear
    \/ DisconnectAllStart
    \/ \E h \in Handles : ShutdownDisconnected(h)
    \/ \E h \in Handles : ShutdownHookDone(h)

Spec == Init /\ [][Next]_vars

SpecSeq == InitSeq /\ [][Next]_vars

(***************************************************************************)
(* Scope resolver: _applyScopes and _filterScopeNamesByPermission.         *)
(*                                                                         *)
(* A query or a static scope is a JSON object.  It is kept as the map from *)
(* its leaf paths to the values found there: the path [top, NoSub] is the  *)
(* key "top" holding a value, [top, sub] is the key "sub" of the object    *)
(* held by "top".  No key holds a value and an object at once.             *)
(***************************************************************************)
TopKeys == 1..NumTopKeys
SubKeys == 1..NumSubKeys
NoSub == 0
Atoms == 1..NumAtoms
ScopeNames == 1..NumScopeNames
NoName == 0                  \* the null scope name of the bypass check

Paths == [top : TopKeys, sub : SubKeys \cup {NoSub}]

TopLeaf(p) == [top |-> p.top, sub |-> NoSub]

PlainObject(D) == \A p \in D : p.sub # NoSub => TopLeaf(p) \notin D

Objects ==
    UNION {[D -> Atoms] : D \in {E \in SUBSET Paths : PlainObject(E) /\ Cardinality(E) <= MaxLeaves}}

EmptyObject == [p \in {} |-> 1]

\* the destination already holds something where the source has the leaf p:
\* the same leaf, an object where the source has a value, or a value where
\* the source has an object
Occupied(obj, p) ==
    \/ p \in DOMAIN obj
    \/ p.sub = NoSub /\ \E q \in DOMAIN obj : q.top = p.top
    \/ p.sub # NoSub /\ TopLeaf(p) \in DOMAIN obj

\* _.defaultsDeep(query, scope): source leaves fill only what the destination lacks
DefaultsOverwrite(obj, src) ==
    [p \in {q \in DOMAIN obj : ~Occupied(src, q)} \cup DOMAIN src |->
        IF p \in DOMAIN src THEN src[p] ELSE obj[p]]
DefaultsDeep(obj, src) ==
    [p \in DOMAIN obj \cup {q \in DOMAIN src : ~Occupied(obj, q)} |->
        IF p \in DOMAIN obj THEN obj[p] ELSE src[p]]

\* params.scope: not given, false, one name, or a list of names
NameLists == UNION {[1..n -> ScopeNames] : n \in 0..MaxScopeList}

ScopeParams ==
    {[kind |-> "absent", names |-> <<>>], [kind |-> "false", names |-> <<>>]}
    \cup {[kind |-> "name", names |-> <<n>>] : n \in ScopeNames}
    \cup {[kind |-> "list", names |-> l] : l \in NameLists}

\* this.settings.scopes[name]: nothing, a static object, or a function of the
\* query; the function of the model sets the first top-level key
NoDef == [kind |-> "none", obj |-> EmptyObject]
FnObject == [p \in {[top |-> 1, sub |-> NoSub]} |-> 1]
ScopeDefs ==
    {NoDef, [kind |-> "fn", obj |-> FnObject]}
    \cup {[kind |-> "static", obj |-> o] : o \in Objects}

\* scope.call(this, query, ctx) of the function scope
CallScope(def, query) ==
    [p \in {q \in DOMAIN query : ~Occupied(def.obj, q)} \cup DOMAIN def.obj |->
        IF p \in DOMAIN def.obj THEN def.obj[p] ELSE query[p]]

ScopeInputs ==
    [kind : {"applyScopes"},
     scope : ScopeParams,
     hasQuery : BOOLEAN,                      \* params.query is given
     query : Objects,
     defaultScopes : NameLists,               \* this.settings.defaultScopes
     scopes : [ScopeNames -> ScopeDefs],      \* this.settings.scopes
     bypass : BOOLEAN,                        \* checkScopeAuthority(ctx, null, null)
     granted : SUBSET ScopeNames]             \* names checkScopeAuthority grants

\* params.query is the caller's object ("caller"), an object made by the call
\* ("copy"), or undefined ("none"); val is what the object holds
NewScopeRun ==
    [pc |-> "start", selected |-> <<>>, scopes |-> <<>>, rest |-> <<>>, res |-> <<>>,
     acc |-> [ref |-> "none", val |-> EmptyObject],
     query |-> [ref |-> IF scopeIn.hasQuery THEN "caller" ELSE "none", val |-> scopeIn.query],
     callerQuery |-> scopeIn.query,
     checks |-> <<>>, applied |-> <<>>]

\* a plain configuration of the pool, which takes no step here
PlainConfig ==
    [autoReconnect |-> FALSE, maximumAdapters |-> 0, adapterConnected |-> FALSE,
     adapterDisconnected |-> FALSE, hasDisconnect |-> FALSE]

InitScopes ==
    /\ Start
    /\ cfg = PlainConfig
    /\ load = [calls |-> 0, active |-> 0]
    /\ scopeIn \in {i \in ScopeInputs : ~i.hasQuery => i.query = EmptyObject}
    /\ scopeRun = NewScopeRun
    /\ NoOperation
    /\ NoConversion

\* lines 152-162: which scope names to use
SelectDefaultsAlways(p, defaults, bypass) ==
    IF p.kind \in {"name", "list"} THEN p.names ELSE defaults
Select(p, defaults, bypass) ==
    IF p.kind \in {"name", "list"} THEN p.names
    ELSE IF p.kind = "false" THEN (IF bypass THEN <<>> ELSE defaults)
    ELSE defaults

\* lines 152-164, 176: choose the names; without names params is returned as it is
ApplyScopesStart ==
    /\ scopeRun.pc = "start"
    /\ LET s == Select(scopeIn.scope, scopeIn.defaultScopes, scopeIn.bypass)
       IN scopeRun' = [scopeRun EXCEPT
              !.selected = s,
              !.scopes = s,
              !.rest = s,
              !.checks = IF scopeIn.scope.kind = "false"
                         THEN <<[name |-> NoName, def |-> NoDef]>> ELSE <<>>,
              !.pc = IF s = <<>> THEN "done" ELSE "filter"]
    /\ UNCHANGED <<poolVars, scopeIn, opVars, convVars>>

\* lines 188-196: one turn of the loop of _filterScopeNamesByPermission
KeepAll(res, n, def, granted) == Append(res, n)
Keep(res, n, def, granted) ==
    IF def.kind = "none" THEN res
    ELSE IF n \in granted THEN Append(res, n) ELSE res

FilterNext ==
    /\ scopeRun.pc = "filter"
    /\ scopeRun.rest # <<>>
    /\ LET n == Head(scopeRun.rest)
           def == scopeIn.scopes[n]
       IN scopeRun' = [scopeRun EXCEPT
              !.rest = Tail(scopeRun.rest),
              !.checks = IF def.kind = "none" THEN @
                         ELSE Append(@, [name |-> n, def |-> def]),
              !.res = Keep(@, n, def, scopeIn.granted)]
    /\ UNCHANGED <<poolVars, scopeIn, opVars, convVars>>

\* _.cloneDeep(params.query || {})
CloneDeep(q) == [ref |-> "copy", val |-> q.val]

\* lines 166-167, 173: the filter returned; reduce starts from a deep copy
FoldStart ==
    /\ scopeRun.pc = "filter"
    /\ scopeRun.rest = <<>>
    /\ scopeRun' = [scopeRun EXCEPT !.pc = "fold", !.rest = scopeRun.res,
                                    !.scopes = scopeRun.res,
                                    !.acc = CloneDeep(scopeRun.query)]
    /\ UNCHANGED <<poolVars, scopeIn, opVars, convVars>>

\* lines 168-172: one turn of reduce; _.defaultsDeep writes into its first
\* argument, the function scope returns an object of its own
FoldNext ==
    /\ scopeRun.pc = "fold"
    /\ scopeRun.rest # <<>>
    /\ LET n == Head(scopeRun.rest)
           def == scopeIn.scopes[n]
           out == IF def.kind = "none" THEN scopeRun.acc
                  ELSE IF def.kind = "fn"
                  THEN [ref |-> "copy", val |-> CallScope(def, scopeRun.acc.val)]
                  ELSE [scopeRun.acc EXCEPT !.val = DefaultsDeep(@, def.obj)]
       IN scopeRun' = [scopeRun EXCEPT
              !.rest = Tail(scopeRun.rest),
              !.acc = out,
              !.callerQuery = IF def.kind = "static" /\ scopeRun.acc.ref = "caller"
                              THEN out.val ELSE @,
              !.applied = IF def.kind = "none" THEN @ ELSE Append(@, n)]
    /\ UNCHANGED <<poolVars, scopeIn, opVars, convVars>>

\* lines 167, 176: params.query is set to what reduce returned
FoldEnd ==
    /\ scopeRun.pc = "fold"
    /\ scopeRun.rest = <<>>
    /\ scopeRun' = [scopeRun EXCEPT !.pc = "done", !.query = scopeRun.acc]
    /\ UNCHANGED <<poolVars, scopeIn, opVars, convVars>>

NextScopes ==
    \/ ApplyScopesStart
    \/ FilterNext
    \/ FoldStart
    \/ FoldNext
    \/ FoldEnd

SpecScopes == InitScopes /\ [][NextScopes]_vars

(***************************************************************************)
(* Entity operations: createEntity, createEntities, updateEntity,          *)
(* updateEntities, replaceEntity, removeEntity, removeEntities,            *)
(* clearEntities and resolveEntities, with _getIDFromParams, _sanitizeID,  *)
(* _entityChanged and entityChanged.                                       *)
(*                                                                         *)
(* Flow 0 is the operation that was called.  updateEntities and            *)
(* removeEntities start one flow per entity found (flows 1, 2, ...), which *)
(* run concurrently and interleave at their awaits.  Every flow keeps the  *)
(* log of what it has invoked.  The adapters and the validator are         *)
(* outside: whether a call of theirs resolves or rejects is chosen at the  *)
(* step that makes the call.                                               *)
(***************************************************************************)
FlowIds == 0..MaxBatch
Ids == 1..MaxBatch           \* identifiers as the callers hold them
NoId == 0
DefaultKey == 1              \* the hash "default" of getAdapterByContext

\* encodeID / decodeID as a service with a secure primary field overrides them
DecodeID(id) == id + MaxBatch
EncodeID(id) == id - MaxBatch

\* entity[this.$primaryField.columnName] of the g-th entity found
StoredId(g) == IF opIn.secure THEN DecodeID(g) ELSE g

OpKinds ==
    {"create", "createMany", "update", "updateMany", "replace", "remove",
     "removeMany", "clear", "resolve"}

IdKinds == {"resolve", "update", "replace", "remove"}
BatchKinds == {"updateMany", "removeMany"}

\* the operation each flow of a batch runs
Single(kind) == IF kind = "updateMany" THEN "update" ELSE "remove"

\* the awaited calls of each method, in the order of its statements
Steps(kind) ==
    CASE kind = "create" ->
           <<"getAdapter", "validate", "write", "transform", "entityChanged", "return">>
      [] kind = "createMany" ->
           <<"getAdapter", "validateAll", "write", "transform", "entityChanged", "return">>
      [] kind = "update" ->
           <<"getAdapter", "getID", "getID", "getAdapter", "find", "validate",
             "sanitizeID", "write", "transform", "entityChanged", "return">>
      [] kind = "replace" ->
           <<"getID", "getID", "getAdapter", "find", "getAdapter", "validate",
             "sanitizeID", "write", "transform", "entityChanged", "return">>
      [] kind = "remove" ->
           <<"getID", "getID", "getAdapter", "find", "getAdapter", "validate",
             "sanitizeID", "write", "transform", "entityChanged", "return">>
      [] kind = "clear" ->
           <<"getAdapter", "write", "entityChanged", "return">>
      [] kind = "resolve" ->
           <<"getID", "sanitizeID", "getAdapter", "find", "transform", "return">>
      [] OTHER ->
           <<"getAdapter", "getAdapter", "findEntities", "promiseAll">>

\* mixinOpts.cache: switched off (cacheOpts is null), on without an event
\* type, or on with an event type
CacheModes == {"disabled", "silent", "event"}

OpInputs ==
    [kind : OpKinds,
     hasId : BOOLEAN,                 \* params[this.$primaryField.name] != null
     secure : BOOLEAN,                \* this.$primaryField.secure
     secureID : {"unset", "yes", "no"},   \* opts.secureID
     raw : BOOLEAN,                   \* opts.raw === true
     transform : BOOLEAN,             \* opts.transform !== false
     returnEntities : BOOLEAN,        \* opts.returnEntities
     throwIfNotExist : BOOLEAN,       \* opts.throwIfNotExist
     softDelete : BOOLEAN,            \* this.$softDelete
     cache : CacheModes,
     lifecycle : BOOLEAN,             \* mixinOpts.entityChangedEventType is set
     fields : 0..MaxFields,           \* fields of params besides the identifier
     size : 0..MaxBatch]              \* elements of params, or entities found

\* an option is drawn only for the operations that read it; the flows of a
\* batch take the options of the batch, which stay at their defaults here
Reads(i) ==
    /\ i.hasId \/ i.kind \in IdKinds
    /\ (i.secure \/ i.secureID # "unset") => i.kind \in IdKinds \cup BatchKinds
    /\ i.secureID # "unset" => i.kind \in IdKinds
    /\ i.raw => i.kind = "update"
    /\ ~i.transform => i.kind \in {"create", "createMany", "update", "replace", "remove", "resolve"}
    /\ i.returnEntities => i.kind = "createMany"
    /\ i.throwIfNotExist => i.kind = "resolve"
    /\ i.softDelete => i.kind \in {"remove", "removeMany"}
    /\ (i.cache # "event" \/ ~i.lifecycle) => i.kind # "resolve"
    /\ i.fields # 0 => i.kind \in {"update", "updateMany"}
    /\ i.size # 0 => i.kind \in {"createMany", "updateMany", "removeMany"}

Ev(name) == [ev |-> name, type |-> "-", ok |-> TRUE, id |-> NoId, soft |-> FALSE]

NoReturn == [kind |-> "none", id |-> NoId]

NoFlow ==
    [kind |-> "none", step |-> 1, status |-> "unused", log |-> <<>>, error |-> "none",
     ret |-> NoReturn, id |-> NoId, sid |-> NoId, body |-> 0, hasChanges |-> FALSE,
     validated |-> "no", wrote |-> FALSE]

NewFlow(kind, id, body) ==
    [NoFlow EXCEPT !.kind = kind, !.status = "running", !.id = id, !.body = body]

InitOps ==
    /\ Start
    /\ cfg = PlainConfig
    /\ load = [calls |-> 0, active |-> 0]
    /\ NoScopeCall
    /\ NoConversion
    /\ opIn \in {i \in OpInputs : Reads(i)}
    /\ opRun = [f \in FlowIds |->
                  IF f = 0
                  THEN NewFlow(opIn.kind, IF opIn.hasId THEN 1 ELSE NoId, opIn.fields)
                  ELSE NoFlow]

At(f, name) ==
    /\ opRun[f].status = "running"
    /\ opRun[f].step <= Len(Steps(opRun[f].kind))
    /\ Steps(opRun[f].kind)[opRun[f].step] = name

\* the flow goes on with its next statement
Go(fl) == [fl EXCEPT !.step = @ + 1]

\* a rejection ends the flow
Swallow(fl, e) == [fl EXCEPT !.step = @ + 1, !.error = e]
Throw(fl, e) == [fl EXCEPT !.status = "rejected", !.error = e]

\* Promise.all of updateEntities / removeEntities: the promise of the batch
\* rejects with the first rejection of a flow and resolves with the last
\* fulfilment
SettleWhenAllEnded(fls) ==
    IF fls[0].status # "waiting" THEN fls
    ELSE IF \E g \in Ids : fls[g].status = "running" THEN fls
    ELSE IF \E g \in Ids : fls[g].status = "rejected"
    THEN [fls EXCEPT ![0].status = "rejected",
                     ![0].error = fls[CHOOSE g \in Ids : fls[g].status = "rejected"].error]
    ELSE [fls EXCEPT ![0].status = "resolved", ![0].ret = [kind |-> "list", id |-> NoId]]
Settle(fls) ==
    IF fls[0].status # "waiting" THEN fls
    ELSE IF \E g \in Ids : fls[g].status = "rejected"
    THEN [fls EXCEPT ![0] = Throw(@, fls[CHOOSE g \in Ids : fls[g].status = "rejected"].error)]
    ELSE IF \A g \in Ids : fls[g].status \in {"unused", "resolved"}
    THEN [fls EXCEPT ![0].status = "resolved", ![0].ret = [kind |-> "list", id |-> NoId]]
    ELSE fls

Put(f, fl) == Settle([opRun EXCEPT ![f] = fl])

\* await this.getAdapter(ctx): lines 26-46 as one step; a new adapter is
\* registered and connected, an existing one is touched
OpGetAdapter(f) ==
    /\ At(f, "getAdapter")
    /\ \E t \in Readings :
         /\ now' = t
         /\ IF MapGet(pool, DefaultKey) # {}
            THEN /\ pool' = Touch(pool, DefaultKey, t)
                 /\ UNCHANGED <<handle, nextHandle>>
            ELSE /\ nextHandle \in Handles
                 /\ pool' = MapSet(pool, DefaultKey, Item(DefaultKey, nextHandle, t))
                 /\ handle' = [handle EXCEPT ![nextHandle].hash = DefaultKey,
                                             ![nextHandle].connStarts = 1,
                                             ![nextHandle].attempts = 1,
                                             ![nextHandle].connected = 1]
                 /\ nextHandle' = nextHandle + 1
    /\ opRun' = Put(f, Go([opRun[f] EXCEPT !.log = Append(@, Ev("getAdapter"))]))
    /\ UNCHANGED <<cfg, running, call, removed, shutdown, load, scopeVars, opIn, convVars>>

\* _getIDFromParams(params), lines 356-362
GetIDFromParams(fl) ==
    IF fl.id = NoId THEN Throw(fl, "MISSING_ID") ELSE Go(fl)

OpGetID(f) ==
    /\ At(f, "getID")
    /\ opRun' = Put(f, GetIDFromParams(opRun[f]))
    /\ UNCHANGED <<poolVars, scopeVars, opIn, convVars>>

\* _sanitizeID(id, opts), lines 832-839
SanitizeID(id) ==
    IF opIn.secureID # "unset"
    THEN (IF opIn.secureID = "yes" THEN DecodeID(id) ELSE id)
    ELSE IF opIn.secure THEN DecodeID(id) ELSE id

\* lines 528-536, 615-620, 657 and 374-381: the identifier is decoded; update
\* and replace delete the identifier fields from params; update looks for changes
OpSanitizeID(f) ==
    /\ At(f, "sanitizeID")
    /\ opRun' = Put(f, Go([opRun[f] EXCEPT
                              !.sid = SanitizeID(opRun[f].id),
                              !.hasChanges = opRun[f].kind = "update" /\ opRun[f].body > 0]))
    /\ UNCHANGED <<poolVars, scopeVars, opIn, convVars>>

\* lines 401-405: adapter.find(params) of resolveEntities
OpFind(f) ==
    /\ At(f, "find")
    /\ \E found \in BOOLEAN :
         LET fl == [opRun[f] EXCEPT !.log = Append(@, Ev("find"))]
         IN opRun' = Put(f,
                IF found THEN Go(fl)
                ELSE IF opRun[f].kind # "resolve" \/ opIn.throwIfNotExist
                THEN Throw(fl, "ENTITY_NOT_FOUND")
                ELSE [fl EXCEPT !.status = "resolved", !.ret = [kind |-> "null", id |-> NoId]])
    /\ UNCHANGED <<poolVars, scopeVars, opIn, convVars>>

\* await this.validateParams(ctx, params, ...): lines 451, 519-526, 608, 651
OpValidateParams(f) ==
    /\ At(f, "validate")
    /\ IF opRun[f].kind = "update" /\ opIn.raw
       THEN opRun' = Put(f, Go([opRun[f] EXCEPT !.validated = "skipped"]))
       ELSE \E ok \in BOOLEAN, b \in 0..MaxFields :
              LET fl == [opRun[f] EXCEPT !.log = Append(@, Ev("validate"))]
              IN /\ opRun[f].kind # "update" => b = opRun[f].body
                 /\ ~ok => b = opRun[f].body
                 /\ opRun' = Put(f,
                        IF ok THEN Go([fl EXCEPT !.validated = "ok", !.body = b])
                        ELSE Throw([fl EXCEPT !.validated = "failed"], "VALIDATION"))
    /\ UNCHANGED <<poolVars, scopeVars, opIn, convVars>>

RECURSIVE Repeat(_, _)
Repeat(e, n) == IF n = 0 THEN <<>> ELSE <<e>> \o Repeat(e, n - 1)

\* lines 476-485: Promise.all over validateParams of every element
OpValidateAll(f) ==
    /\ At(f, "validateAll")
    /\ \E bad \in SUBSET (1..opIn.size) :
         LET fl == [opRun[f] EXCEPT !.log = @ \o Repeat(Ev("validate"), opIn.size)]
         IN opRun' = Put(f,
                IF bad = {} THEN Go([fl EXCEPT !.validated = "ok"])
                ELSE Throw([fl EXCEPT !.validated = "failed"], "VALIDATION"))
    /\ UNCHANGED <<poolVars, scopeVars, opIn, convVars>>

\* the adapter method each operation delegates to
WriteCall(fl) ==
    CASE fl.kind = "create" -> "insert"
      [] fl.kind = "createMany" -> "insertMany"
      [] fl.kind = "update" -> "updateById"
      [] fl.kind = "replace" -> "replaceById"
      [] fl.kind = "remove" -> (IF opIn.softDelete THEN "updateById" ELSE "removeById")
      [] OTHER -> "clear"

\* lines 536-542: updateEntity writes only a patch that has keys left
Writes(fl) == fl.kind = "update" => fl.hasChanges

\* lines 458, 488, 538, 623, 662-666, 724: the adapter call that writes
OpAdapterWrite(f) ==
    /\ At(f, "write")
    /\ IF ~Writes(opRun[f])
       THEN opRun' = Put(f, Go(opRun[f]))
       ELSE \E ok \in BOOLEAN :
              LET fl == [opRun[f] EXCEPT
                            !.log = Append(@, [Ev(WriteCall(opRun[f])) EXCEPT
                                                  !.ok = ok, !.id = opRun[f].sid])]
              IN opRun' = Put(f, IF ok THEN Go([fl EXCEPT !.wrote = TRUE])
                                 ELSE Throw(fl, "ADAPTER"))
    /\ UNCHANGED <<poolVars, scopeVars, opIn, convVars>>

\* lines 459, 491, 544, 625, 669, 421: is transformResult called
Transforms(fl) ==
    IF fl.kind = "createMany" THEN opIn.returnEntities /\ opIn.transform
    ELSE opIn.transform

OpTransformResult(f) ==
    /\ At(f, "transform")
    /\ opRun' = Put(f, Go(IF Transforms(opRun[f])
                          THEN [opRun[f] EXCEPT !.log = Append(@, Ev("transform"))]
                          ELSE opRun[f]))
    /\ UNCHANGED <<poolVars, scopeVars, opIn, convVars>>

\* the type of the change an operation reports
ChangeType(fl) ==
    CASE fl.kind \in {"create", "createMany"} -> "create"
      [] fl.kind = "update" -> "update"
      [] fl.kind = "replace" -> "replace"
      [] fl.kind = "remove" -> "remove"
      [] OTHER -> "clear"

Change(fl, channel) ==
    [Ev(channel) EXCEPT !.type = ChangeType(fl),
                        !.soft = fl.kind = "remove" /\ opIn.softDelete]

\* lines 769-779: the cache cleaning event; cacheOpts is null when the cache
\* is switched off, and reading cacheOpts.eventType then throws
CacheEvent(fl) ==
    IF opIn.cache = "disabled" THEN Throw(fl, "TYPE_ERROR")
    ELSE IF opIn.cache = "event"
    THEN [fl EXCEPT !.log = Append(@, Change(fl, "cache"))]
    ELSE fl

\* lines 792-801: the entity lifecycle event
LifecycleEvent(fl) ==
    IF opIn.lifecycle THEN [fl EXCEPT !.log = Append(@, Change(fl, "lifecycle"))] ELSE fl

\* lines 768-782: _entityChanged
EntityChanged(fl) ==
    IF CacheEvent(fl).status = "rejected" THEN CacheEvent(fl)
    ELSE LifecycleEvent(CacheEvent(fl))

\* lines 463, 495, 548-550, 629, 673-676, 726: await this._entityChanged(...)
OpEntityChanged(f) ==
    /\ At(f, "entityChanged")
    /\ opRun' = Put(f, IF opRun[f].kind = "update" /\ ~opRun[f].hasChanges
                       THEN Go(opRun[f])
                       ELSE Go(EntityChanged(opRun[f])))
    /\ UNCHANGED <<poolVars, scopeVars, opIn, convVars>>

\* what the operation returns: removeEntity returns origID, the others the
\* entity, the entities or the result of the adapter
Returns(fl) ==
    IF fl.kind = "remove" THEN [kind |-> "id", id |-> fl.id]
    ELSE [kind |-> IF fl.kind = "update" /\ ~fl.hasChanges THEN "oldEntity" ELSE "result",
          id |-> NoId]

OpReturn(f) ==
    /\ At(f, "return")
    /\ opRun' = Put(f, [opRun[f] EXCEPT !.status = "resolved", !.ret = Returns(opRun[f])])
    /\ UNCHANGED <<poolVars, scopeVars, opIn, convVars>>

\* lines 567-571, 692-696 with 270: adapter.find of findEntities returns the entities
OpFindEntities(f) ==
    /\ At(f, "findEntities")
    /\ opRun' = Put(f, Go([opRun[f] EXCEPT !.log = Append(@, Ev("find"))]))
    /\ UNCHANGED <<poolVars, scopeVars, opIn, convVars>>

\* lines 573-588, 698-712: one flow per entity, each with the identifier of
\* its entity, encoded when the primary field is secure
OpPromiseAll(f) ==
    /\ At(f, "promiseAll")
    /\ opRun' = Settle([g \in FlowIds |->
                          IF g = f THEN [opRun[f] EXCEPT !.status = "waiting"]
                          ELSE IF g <= opIn.size
                          THEN NewFlow(Single(opRun[f].kind),
                                       IF opIn.secure THEN EncodeID(StoredId(g)) ELSE StoredId(g),
                                       opIn.fields)
                          ELSE NoFlow])
    /\ UNCHANGED <<poolVars, scopeVars, opIn, convVars>>

NextOps ==
    \/ \E f \in FlowIds : OpGetAdapter(f)
    \/ \E f \in FlowIds : OpGetID(f)
    \/ \E f \in FlowIds : OpSanitizeID(f)
    \/ \E f \in FlowIds : OpFind(f)
    \/ \E f \in FlowIds : OpValidateParams(f)
    \/ \E f \in FlowIds : OpValidateAll(f)
    \/ \E f \in FlowIds : OpAdapterWrite(f)
    \/ \E f \in FlowIds : OpTransformResult(f)
    \/ \E f \in FlowIds : OpEntityChanged(f)
    \/ \E f \in FlowIds : OpReturn(f)
    \/ \E f \in FlowIds : OpFindEntities(f)
    \/ \E f \in FlowIds : OpPromiseAll(f)

SpecOps == InitOps /\ [][NextOps]_vars

(***************************************************************************)
(* _disconnect(adapter, hash) on its own: the call is made for any adapter *)
(* the service has created, whether the pool still holds it or not, and    *)
(* runs the steps MaintRemove, MaintCallDisconnect, MaintDisconnected and  *)
(* MaintHookDone of the loop of maintenanceAdapters with this one item.    *)
(***************************************************************************)
Items == [hash : Keys, adapter : Handles, touched : 0..MaxClock]

\* a Map has one entry per key, and every adapter object is registered once
Pools ==
    {m \in UNION {[1..n -> Items] : n \in 0..MaxLimit} :
        \A i, j \in 1..Len(m) : i # j => m[i].hash # m[j].hash /\ m[i].adapter # m[j].adapter}

ReleaseConfigs ==
    {c \in Configs : ~c.autoReconnect /\ c.maximumAdapters = 0 /\ ~c.adapterConnected}

\* the adapter a was created for the key k; the pool holds it under k, or
\* does not hold it any more
InitRelease ==
    /\ cfg \in ReleaseConfigs
    /\ pool \in Pools
    /\ now = MaxClock
    /\ nextHandle = MaxHandles + 1
    /\ running = 1
    /\ shutdown = [pc |-> "idle", count |-> 0, snapshot |-> <<>>]
    /\ load = [calls |-> 0, active |-> 0]
    /\ removed = Handles \ PoolHandles
    /\ \E a \in Handles, k \in Keys, ks \in [Handles -> Keys] :
         /\ \A i \in 1..Len(pool) : ks[pool[i].adapter] = pool[i].hash
         /\ \A h \in Handles : h \notin PoolHandles /\ h # a => ks[h] = DefaultKey
         /\ ks[a] = k
         /\ handle = [h \in Handles |->
                        [NewHandle EXCEPT !.hash = ks[h], !.connStarts = 1,
                                          !.attempts = 1, !.connected = 1]]
         /\ call = [c \in Calls |->
                      IF c = 1
                      THEN [NewCall EXCEPT !.pc = "maintLoop",
                                           !.closeable = <<Item(k, a, 0)>>]
                      ELSE NewCall]
    /\ NoScopeCall
    /\ NoOperation
    /\ NoConversion

NextRelease ==
    \/ \E c \in Calls : MaintRemove(c)
    \/ \E c \in Calls : MaintCallDisconnect(c)
    \/ \E c \in Calls : MaintDisconnected(c)
    \/ \E c \in Calls : MaintHookDone(c)

SpecRelease == InitRelease /\ [][NextRelease]_vars

\* ---- field names to column names (paramsFieldNameConversion) ----
\* An object is the sequence of its entries in Object.keys order, each a
\* key with a value; a value is a primitive, an object that is not plain
\* (a Date, a RegExp) or a plain object.
FieldNames == 1..NumFieldNames
Columns == 1..NumColumns
NoColumn == 0

\* this.$fields: the columnName of the field with that name, NoColumn if
\* no field has the name
FieldLists == [FieldNames -> Columns \cup {NoColumn}]

AtomValue(a) == [kind |-> "atom", atom |-> a, obj |-> <<>>]
OtherValue(a) == [kind |-> "other", atom |-> a, obj |-> <<>>]
PlainValue(o) == [kind |-> "plain", atom |-> 0, obj |-> o]
Entry(k, v) == [key |-> k, val |-> v]

KeyLists ==
    UNION {{ks \in [1..n -> FieldNames] : \A i, j \in 1..n : ks[i] = ks[j] => i = j}
           : n \in 0..MaxQueryKeys}

ObjectsOver(values) ==
    UNION {{[i \in 1..Len(ks) |-> Entry(ks[i], vs[i])] : vs \in [1..Len(ks) -> values]}
           : ks \in KeyLists}

LeafValues == {AtomValue(a) : a \in Atoms} \cup {OtherValue(1)}
LeafObjects == ObjectsOver(LeafValues)
QueryValues == LeafValues \cup {PlainValue(o) : o \in LeafObjects}
Queries == ObjectsOver(QueryValues)

Has(obj, k) == \E i \in 1..Len(obj) : obj[i].key = k
Get(obj, k) == obj[CHOOSE i \in 1..Len(obj) : obj[i].key = k].val

\* res[k] = v
Set(obj, k, v) ==
    IF Has(obj, k)
    THEN [i \in 1..Len(obj) |-> IF obj[i].key = k THEN Entry(k, v) ELSE obj[i]]
    ELSE Append(obj, Entry(k, v))

\* _.isPlainObject(res[k]): undefined is not a plain object
IsPlainObject(obj, k) == Has(obj, k) /\ Get(obj, k).kind = "plain"

\* the entries Object.keys(v) walks: none for a number, a Date or a RegExp
ObjectKeys(v) == IF v.kind = "plain" THEN v.obj ELSE <<>>

NoCache == [n \in FieldNames |-> NoColumn]

GetColumnNameFromFieldName(fields, cache, fieldName) ==
    IF cache[fieldName] # NoColumn
    THEN [col |-> cache[fieldName], cache |-> cache]
    ELSE IF fields[fieldName] # NoColumn
         THEN [col |-> fields[fieldName],
               cache |-> [cache EXCEPT ![fieldName] = fields[fieldName]]]
         ELSE [col |-> fieldName, cache |-> cache]

RECURSIVE QueryFieldNameConversion(_, _, _, _)
\* one turn of the reduce callback; acc holds res and cacheColumnName
ReduceStep(fields, recursive, acc, entry) ==
    LET c == GetColumnNameFromFieldName(fields, acc.cache, entry.key)
    IN  IF IsPlainObject(acc.res, c.col) /\ recursive
        THEN LET inner == QueryFieldNameConversion(fields, c.cache,
                                                   ObjectKeys(entry.val), recursive)
             IN  [res |-> Set(acc.res, c.col, PlainValue(inner.res)),
                  cache |-> inner.cache]
        ELSE [res |-> Set(acc.res, c.col, entry.val), cache |-> c.cache]

RECURSIVE Reduce(_, _, _, _)
Reduce(fields, recursive, acc, entries) ==
    IF entries = <<>>
    THEN acc
    ELSE Reduce(fields, recursive, ReduceStep(fields, recursive, acc, Head(entries)),
                Tail(entries))

QueryFieldNameConversion(fields, cache, query, recursive) ==
    Reduce(fields, recursive, [res |-> <<>>, cache |-> cache], query)

ConvInputs == [fields : FieldLists, query : Queries, recursive : BOOLEAN]

InitConv ==
    /\ Start
    /\ cfg = PlainConfig
    /\ load = [calls |-> 0, active |-> 0]
    /\ NoScopeCall
    /\ NoOperation
    /\ convIn \in ConvInputs
    /\ convRun = [pc |-> "idle", i |-> 0, res |-> <<>>, cache |-> NoCache, out |-> <<>>]

\* paramsFieldNameConversion calls with recursive = true (line 906), the
\* populate definitions with false (line 757); the reduce starts from {}
ConvStart ==
    /\ convRun.pc = "idle"
    /\ convRun' = [convRun EXCEPT !.pc = "reduce", !.i = 1, !.res = <<>>]
    /\ UNCHANGED <<poolVars, scopeVars, opVars, convIn>>

ConvKey ==
    /\ convRun.pc = "reduce"
    /\ convRun.i <= Len(convIn.query)
    /\ LET acc == ReduceStep(convIn.fields, convIn.recursive,
                             [res |-> convRun.res, cache |-> convRun.cache],
                             convIn.query[convRun.i])
       IN  convRun' = [convRun EXCEPT !.i = @ + 1, !.res = acc.res, !.cache = acc.cache]
    /\ UNCHANGED <<poolVars, scopeVars, opVars, convIn>>

ConvReturn ==
    /\ convRun.pc = "reduce"
    /\ convRun.i > Len(convIn.query)
    /\ convRun' = [convRun EXCEPT !.pc = "done", !.out = convRun.res]
    /\ UNCHANGED <<poolVars, scopeVars, opVars, convIn>>

NextConv ==
    \/ ConvStart
    \/ ConvKey
    \/ ConvReturn

SpecConv == InitConv /\ [][NextConv]_vars


TypeOK ==
    /\ cfg \in Configs
    /\ load \in Loads
    /\ now \in 0..MaxClock
    /\ nextHandle \in 1..(MaxHandles + 1)
    /\ running \in Calls \cup {Idle, ShutdownTask}
    /\ removed \subseteq Handles
    /\ \A i \in 1..Len(pool) : pool[i].adapter \in Handles /\ pool[i].hash \in Keys

\* ---- vocabulary of the properties ----
Created == {h \in Handles : h < nextHandle}
Creators == {c \in Calls : call[c].role = "creator"}
Reusers == {c \in Calls : call[c].role = "reuser"}
Limited == cfg.maximumAdapters >= 1

\* ---- C1 ----
\* C1: while the entry of a hash is not evicted, one adapter is created and one
\* connect sequence is started for that hash, however many calls ask for it,
\* and the calls that return hand out that one adapter; other hashes get
\* adapters of their own.
OneAdapterPerKey ==
    /\ \A k \in Keys :
         Cardinality({h \in Created : handle[h].hash = k /\ h \notin removed}) <= 1
    /\ \A h \in Created : handle[h].connStarts <= 1
    /\ \A c \in Creators :
         call[c].pc \in {"connecting", "connHook", "backoff", "done", "failed"}
            => handle[call[c].adapter].connStarts = 1
    /\ \A c, d \in Calls :
         (call[c].pc = "done" /\ call[d].pc = "done")
            => /\ (call[c].hash = call[d].hash /\ call[c].adapter # call[d].adapter)
                     => (call[c].adapter \in removed \/ call[d].adapter \in removed)
               /\ call[c].hash # call[d].hash => call[c].adapter # call[d].adapter
    /\ \A c \in Calls :
         call[c].pc = "done" => handle[call[c].adapter].hash = call[c].hash

\* two calls of one hash, the second issued while the first was creating the
\* entry, both returned the same adapter; another hash has its own adapter
OneAdapterPerKeyWitness ==
    \E c, d \in Calls :
        /\ c # d
        /\ call[c].pc = "done" /\ call[d].pc = "done"
        /\ call[c].role = "creator" /\ call[d].role = "reuser"
        /\ call[d].joinedInFlight
        /\ call[c].hash = call[d].hash
        /\ call[c].adapter = call[d].adapter
        /\ call[c].adapter \notin removed
        /\ handle[call[c].adapter].connStarts = 1
        /\ \E h \in Created : handle[h].hash # call[c].hash

\* ---- C2 ----
\* C2: a call that has returned an adapter returned one on which a connect
\* attempt has succeeded.
ReturnsOnlyConnected ==
    \A c \in Calls : call[c].pc = "done" => handle[call[c].adapter].connected >= 1

\* ---- C3 ----
\* what holds of the pool and of the entries call c closed
PassResult(c) ==
    /\ Len(pool) <= cfg.maximumAdapters
    /\ \A i \in 1..Len(call[c].closed) :
          /\ call[c].closed[i].adapter \notin PoolHandles
          /\ cfg.hasDisconnect => handle[call[c].closed[i].adapter].discCalls = 1
          /\ \A j \in 1..Len(pool) : call[c].closed[i].touched <= pool[j].touched
    /\ (call[c].closed # <<>> /\ call[c].adapter \in PoolHandles)
          => Len(pool) = cfg.maximumAdapters
    /\ (/\ cfg.maximumAdapters = 2
        /\ call[c].adapter = 3
        /\ nextHandle = 4
        /\ Reusers = {}
        /\ shutdown.count = 0)
          => PoolHandles = {2, 3}

PassEnds(c) == call[c].pc # "maintained" /\ call'[c].pc = "maintained"

\* C3: with a maximum configured, when a maintenance pass ends the pool holds
\* at most the maximum, every entry the pass closed was touched no later than
\* every entry that is kept, a pass that closed something left exactly the
\* maximum, and disconnect was called on what it closed; with maximum 2 and
\* three entries touched in the order of their creation the first is the one
\* that goes.
MaintenanceKeepsNewest ==
    [][\A c \in Calls : (Limited /\ PassEnds(c)) => PassResult(c)']_vars

\* with maximum 2 the first entry was touched again after the second was
\* created, and the pass that followed the third closed the second
MaintenanceKeepsNewestWitness ==
    \E c \in Calls :
        /\ call[c].pc = "maintained"
        /\ cfg.maximumAdapters = 2
        /\ Len(call[c].closed) = 1
        /\ call[c].closed[1].adapter = 2
        /\ PoolHandles = {1, 3}

\* ---- C4 ----
\* C4: with a maximum configured the pool never holds more than maximum + 1
\* entries, and it holds more than the maximum only while the call that
\* registered the last entry is between that registration and the eviction of
\* its maintenance pass.
PoolBound ==
    Limited =>
        /\ Len(pool) <= cfg.maximumAdapters + 1
        /\ Len(pool) > cfg.maximumAdapters
              => /\ running \in Calls
                 /\ call[running].pc \in {"registered", "maintLoop"}
                 /\ pool[Len(pool)].adapter = call[running].adapter

\* a call has registered its entry over the maximum while the maintenance pass
\* of another call is suspended on a disconnect
PoolBoundWitness ==
    /\ Limited
    /\ Len(pool) = cfg.maximumAdapters + 1
    /\ \E c \in Calls : call[c].pc = "disconnecting" /\ running # c /\ running \in Calls

\* ---- C5 ----
\* C5: with auto-reconnect the creating call never fails, every backoff wait
\* follows a failure of adapter.connect, and the call returns after one
\* connect attempt more than adapter.connect failed.
RetryFollowsConnectFailures ==
    cfg.autoReconnect =>
        \A c \in Creators :
            /\ call[c].pc # "failed"
            /\ handle[call[c].adapter].waits = handle[call[c].adapter].fails
            /\ call[c].pc = "done"
                  => /\ handle[call[c].adapter].connected >= 1
                     /\ handle[call[c].adapter].attempts
                           = handle[call[c].adapter].fails + 1

\* ---- C6 ----
\* C6: without auto-reconnect an adapter whose connect failed was tried once,
\* no retry was scheduled for it, and its creating call failed with the
\* connect error.
NoRetryWhenDisabled ==
    ~cfg.autoReconnect =>
        /\ \A h \in Created :
              handle[h].fails >= 1
                 => /\ handle[h].attempts = 1
                    /\ handle[h].waits = 0
                    /\ handle[h].connected = 0
                    /\ \E c \in Creators :
                          /\ call[c].adapter = h
                          /\ call[c].pc = "failed"
                          /\ call[c].error = "connect"
        /\ \A c \in Calls : call[c].pc # "backoff"

NoRetryWhenDisabledWitness ==
    /\ ~cfg.autoReconnect
    /\ \E c \in Creators :
          /\ call[c].pc = "failed"
          /\ call[c].error = "connect"
          /\ handle[call[c].adapter].attempts = 1

\* ---- C7 ----
\* C7: when the connect of a new entry fails for good, every call that asked
\* for the same hash while the creation was in flight fails too.
JoinersSeeFailure ==
    \A c \in Creators, d \in Reusers :
        (/\ ~cfg.autoReconnect
         /\ call[c].pc = "failed"
         /\ call[c].error = "connect"
         /\ call[d].adapter = call[c].adapter
         /\ call[d].joinedInFlight)
           => call[d].pc = "failed"

\* ---- C8 ----
\* C8: an adapter is out of the pool before its disconnect is called and stays
\* out, and no call hands out an adapter that was removed before the call
\* started: the call for the hash of a removed adapter makes a new one.
RemovedBeforeDisconnect ==
    /\ \A h \in Handles : handle[h].discCalls > 0 => h \notin PoolHandles
    /\ removed \cap PoolHandles = {}
    /\ \A c \in Calls :
          call[c].pc = "removedItem"
             => /\ call[c].target \notin PoolHandles
                /\ handle[call[c].target].discCalls = 0
    /\ shutdown.pc = "cleared"
          => \A h \in HandlesOf(shutdown.snapshot) :
                h \notin PoolHandles /\ handle[h].discCalls = 0
    /\ \A c \in Calls :
          call[c].adapter # NoHandle => call[c].adapter \notin call[c].startRemoved

\* a call for the hash of an adapter that was evicted and disconnected before
\* the call started has returned a new adapter
RemovedBeforeDisconnectWitness ==
    \E c \in Creators :
        /\ call[c].pc = "done"
        /\ \E h \in call[c].startRemoved :
              /\ handle[h].hash = call[c].hash
              /\ handle[h].discCalls = 1
              /\ ~handle[h].snapshot

\* ---- C9 ----
\* every step other than the clear of _disconnectAll and the removal of a
\* maintenance pass keeps every entry of the pool
OnlyClearAndEvictionRemove ==
    (/\ running' # ShutdownTask
     /\ \A c \in Calls : ~(call[c].pc = "maintLoop" /\ call'[c].pc = "removedItem"))
       => PoolHandles \subseteq HandlesOf(pool')

SnapshotDisconnectedOnce ==
    /\ shutdown.pc = "cleared"
          => /\ pool = <<>>
             /\ \A h \in HandlesOf(shutdown.snapshot) :
                   /\ handle[h].discCalls = 0
                   /\ handle[h].discHookCalls = 0
                   /\ handle[h].job = "none"
    /\ \A h \in Handles :
          handle[h].snapshot
             => /\ handle[h].job = "none" => h \in HandlesOf(shutdown.snapshot)
                /\ handle[h].job = "disconnecting"
                      => handle[h].discCalls = 1 /\ handle[h].discHookCalls = 0
                /\ handle[h].job \in {"hook", "done"}
                      => /\ handle[h].discCalls = (IF cfg.hasDisconnect THEN 1 ELSE 0)
                /\ handle[h].job = "hook" => handle[h].discHookCalls = 1
                /\ handle[h].job = "done"
                      => handle[h].discHookCalls
                            = (IF cfg.adapterDisconnected THEN 1 ELSE 0)

HitOnlyTouches ==
    \A c \in Calls :
        (call[c].pc = "idle" /\ call'[c].pc = "done")
           => /\ Len(pool') = Len(pool)
              /\ \A i \in 1..Len(pool) :
                    /\ pool'[i].adapter = pool[i].adapter
                    /\ pool'[i].hash = pool[i].hash
                    /\ IF pool[i].hash = call'[c].hash
                       THEN /\ pool'[i].touched = now'
                            /\ call'[c].adapter = pool[i].adapter
                       ELSE pool'[i].touched = pool[i].touched
              /\ \E i \in 1..Len(pool) : pool[i].hash = call'[c].hash
              /\ now' >= now
              /\ nextHandle' = nextHandle
              /\ handle' = handle
              /\ removed' = removed
              /\ running' = running
              /\ shutdown' = shutdown
              /\ \A d \in Calls \ {c} : call'[d] = call[d]

\* C10: the step of a call that finds the entry of its hash sets the touched
\* time of that entry to the reading of the clock, returns its adapter, and
\* changes nothing else: no entry comes or goes, no other entry is touched, no
\* adapter is created, connected or disconnected, no other call moves.
TouchFrame == [][HitOnlyTouches]_vars

\* a call has returned the entry of its hash, touched at the reading of the
\* clock, next to an entry that still carries an older time
TouchFrameWitness ==
    \E c \in Reusers, i, j \in 1..Len(pool) :
        /\ call[c].pc = "done"
        /\ pool[i].adapter = call[c].adapter
        /\ pool[i].touched = now
        /\ pool[j].touched < now
        /\ i < j
\* ---- scope resolver: vocabulary of the claims ----
ScopeDone == scopeRun.pc = "done"

\* the scope of name n is defined and checkScopeAuthority grants it
Survives(n) == scopeIn.scopes[n].kind # "none" /\ n \in scopeIn.granted

Survivors == SelectSeq(scopeRun.selected, Survives)

\* the checks made for scope names, without the bypass check
NameChecks == SelectSeq(scopeRun.checks, LAMBDA k : k.name # NoName)

Defined(n) == scopeIn.scopes[n].kind # "none"

RECURSIVE FoldStatic(_, _)
FoldStatic(q, names) ==
    IF names = <<>> THEN q
    ELSE FoldStatic(DefaultsDeep(q, scopeIn.scopes[names[1]].obj), Tail(names))

AllStatic(names) == \A i \in 1..Len(names) : scopeIn.scopes[names[i]].kind = "static"

\* the caller's query, then the objects of the applied scopes, in the order of use
Sources ==
    <<scopeIn.query>> \o [i \in 1..Len(scopeRun.applied) |-> scopeIn.scopes[scopeRun.applied[i]].obj]

FirstWith(p) == CHOOSE i \in 1..Len(Sources) :
                    /\ p \in DOMAIN Sources[i]
                    /\ \A j \in 1..(i - 1) : p \notin DOMAIN Sources[j]

\* C11: once _applyScopes has chosen its scope names, they are the default
\* scopes when params.scope is not given, the given name or list when one is
\* given, and for scope=false they are none when the bypass check
\* checkScopeAuthority(ctx, null, null) grants and the default scopes when it
\* denies; the bypass check is made for scope=false only.  With the bypass
\* granted the call returns the query it was given, and the default scope
\* {active: true} on the query {} returns {active: true}.
ScopeSelection ==
    scopeRun.pc \in {"filter", "fold", "done"} =>
        /\ scopeIn.scope.kind = "absent" =>
               /\ scopeRun.selected = scopeIn.defaultScopes
               /\ \A i \in 1..Len(scopeRun.checks) : scopeRun.checks[i].name # NoName
        /\ scopeIn.scope.kind = "false" =>
               /\ scopeRun.checks # <<>>
               /\ scopeRun.checks[1] = [name |-> NoName, def |-> NoDef]
               /\ scopeIn.bypass => scopeRun.selected = <<>>
               /\ ~scopeIn.bypass => scopeRun.selected = scopeIn.defaultScopes
        /\ scopeIn.scope.kind \in {"name", "list"} =>
               /\ scopeRun.selected = scopeIn.scope.names
               /\ \A i \in 1..Len(scopeRun.checks) : scopeRun.checks[i].name # NoName
        /\ (ScopeDone /\ scopeIn.scope.kind = "false" /\ scopeIn.bypass) =>
               /\ scopeRun.applied = <<>>
               /\ scopeRun.query = [ref |-> IF scopeIn.hasQuery THEN "caller" ELSE "none",
                                    val |-> scopeIn.query]
        /\ (/\ ScopeDone
            /\ scopeIn.scope.kind = "absent"
            /\ scopeIn.query = EmptyObject
            /\ Len(scopeIn.defaultScopes) = 1
            /\ AllStatic(scopeIn.defaultScopes)
            /\ scopeIn.defaultScopes[1] \in scopeIn.granted) =>
               scopeRun.query.val = scopeIn.scopes[scopeIn.defaultScopes[1]].obj

\* scope=false was denied and the default scopes were applied instead
ScopeSelectionWitness ==
    /\ ScopeDone
    /\ scopeIn.scope.kind = "false"
    /\ ~scopeIn.bypass
    /\ scopeIn.defaultScopes # <<>>
    /\ scopeRun.applied = scopeIn.defaultScopes
    /\ scopeRun.query.val # scopeIn.query

\* C12: checkScopeAuthority is called once for every chosen scope name that
\* has a definition, with that name and that definition, in the order of the
\* names; the scopes applied are the chosen names that are defined and
\* granted, in their order, and the query returned is the fold of these
\* only: a denied or undefined name changes nothing and the call still ends.
ScopesAuthorizedOneByOne ==
    /\ scopeRun.pc \in {"fold", "done"} =>
           /\ NameChecks = [i \in 1..Len(SelectSeq(scopeRun.selected, Defined)) |->
                              [name |-> SelectSeq(scopeRun.selected, Defined)[i],
                               def |-> scopeIn.scopes[SelectSeq(scopeRun.selected, Defined)[i]]]]
           /\ scopeRun.res = Survivors
    /\ ScopeDone =>
           /\ scopeRun.applied = Survivors
           /\ (scopeRun.selected # <<>> /\ AllStatic(Survivors)) =>
                  scopeRun.query.val = FoldStatic(scopeIn.query, Survivors)

\* a denied name between two granted ones left no trace
ScopesAuthorizedOneByOneWitness ==
    /\ ScopeDone
    /\ Len(scopeRun.selected) = 2
    /\ Len(NameChecks) = 2
    /\ Len(scopeRun.applied) = 1
    /\ scopeRun.applied[1] = scopeRun.selected[2]
    /\ scopeRun.query.val # scopeIn.query

\* C13: when only static scopes are applied, every leaf of the query
\* returned holds the value of the first object that has this leaf, in the
\* order caller's query, first scope, second scope ...; every leaf of the
\* caller's query is returned with the caller's value; and the object the
\* caller passed as params.query holds at every moment what it held at the call.
StaticFoldKeepsEarlier ==
    /\ scopeRun.pc \in {"start", "filter", "fold", "done"} =>
           scopeRun.callerQuery = scopeIn.query
    /\ (ScopeDone /\ scopeRun.applied # <<>> /\ AllStatic(scopeRun.applied)) =>
           /\ scopeRun.query.ref = "copy"
           /\ \A p \in DOMAIN scopeIn.query :
                  p \in DOMAIN scopeRun.query.val /\ scopeRun.query.val[p] = scopeIn.query[p]
           /\ \A p \in DOMAIN scopeRun.query.val :
                  /\ \E i \in 1..Len(Sources) : p \in DOMAIN Sources[i]
                  /\ scopeRun.query.val[p] = Sources[FirstWith(p)][p]

\* two static scopes give different values to a leaf the caller's query lacks,
\* and the caller's query has a leaf of its own next to it
StaticFoldKeepsEarlierWitness ==
    /\ ScopeDone
    /\ Len(scopeRun.applied) = 2
    /\ AllStatic(scopeRun.applied)
    /\ scopeIn.query # EmptyObject
    /\ \E p \in DOMAIN Sources[2] :
           /\ p \in DOMAIN Sources[3]
           /\ Sources[2][p] # Sources[3][p]
           /\ p \in DOMAIN scopeRun.query.val
           /\ scopeRun.query.val[p] = Sources[2][p]

\* ---- entity operations: vocabulary of the claims ----
Idx(fl, name) == {i \in 1..Len(fl.log) : fl.log[i].ev = name}

WriteNames == {"insert", "insertMany", "updateById", "replaceById", "removeById", "clear"}

WriteIdx(fl) == {i \in 1..Len(fl.log) : fl.log[i].ev \in WriteNames}

\* change notifications of a flow on one channel
Notes(fl, channel) == {i \in 1..Len(fl.log) : fl.log[i].ev = channel}

Settled(fl) == fl.status \in {"resolved", "rejected"}

\* notifications a change has to make on a channel: one when it is switched on
Due(on) == IF on THEN 1 ELSE 0

OneNotification(fl) ==
    /\ Cardinality(Notes(fl, "cache")) = Due(opIn.cache = "event")
    /\ Cardinality(Notes(fl, "lifecycle")) = Due(opIn.lifecycle)
    /\ \A i \in Notes(fl, "cache") \cup Notes(fl, "lifecycle") : fl.log[i].type = ChangeType(fl)

\* C14: an updateEntity that has ended and found no key left in its patch
\* has not called updateById, has notified nobody and has returned the
\* entity it resolved; one whose updateById has succeeded has called it once
\* and has made one "update" notification on every channel that is switched
\* on (none on the others).
UpdateWritesOnlyChanges ==
    \A f \in FlowIds :
        (opRun[f].kind = "update" /\ Settled(opRun[f])) =>
            /\ (opRun[f].status = "resolved" /\ ~opRun[f].hasChanges) =>
                   /\ WriteIdx(opRun[f]) = {}
                   /\ Notes(opRun[f], "cache") \cup Notes(opRun[f], "lifecycle") = {}
                   /\ opRun[f].ret.kind = "oldEntity"
            /\ opRun[f].wrote =>
                   /\ Cardinality(Idx(opRun[f], "updateById")) = 1
                   /\ OneNotification(opRun[f])

\* C15: a flow that has failed for its missing identifier has invoked
\* nothing before, getAdapter included, and the pool is as it was: empty, no
\* adapter created or connected.
MissingIdBeforeAdapter ==
    \A f \in FlowIds :
        opRun[f].error = "MISSING_ID" =>
            /\ opRun[f].log = <<>>
            /\ pool = <<>>
            /\ nextHandle = 1
            /\ \A h \in Handles : handle[h].connected = 0

\* C16: a removeEntity that has ended after its adapter call succeeded has
\* called updateById once and never removeById when soft delete is
\* configured, removeById once and never updateById otherwise, has made one
\* "remove" notification per switched-on channel carrying the configured
\* softDelete flag, and has returned the identifier the caller passed.
RemoveSoftOrHard ==
    \A f \in FlowIds :
        (opRun[f].kind = "remove" /\ Settled(opRun[f]) /\ opRun[f].wrote) =>
            /\ Cardinality(Idx(opRun[f], "updateById")) = Due(opIn.softDelete)
            /\ Cardinality(Idx(opRun[f], "removeById")) = Due(~opIn.softDelete)
            /\ OneNotification(opRun[f])
            /\ \A i \in Notes(opRun[f], "cache") \cup Notes(opRun[f], "lifecycle") :
                   opRun[f].log[i].soft = opIn.softDelete
            /\ opRun[f].status = "resolved"
            /\ opRun[f].ret = [kind |-> "id", id |-> opRun[f].id]

\* C17: in each of the combinations of the cache channel (switched off, on
\* without event type, on with event type) and the lifecycle channel (off,
\* on), a create, update, replace, remove or clear whose adapter call
\* succeeded ends resolved, with one notification on every channel that is
\* switched on and none on the others.
ChannelsIndependent ==
    \A f \in FlowIds :
        (opRun[f].wrote /\ Settled(opRun[f])) =>
            /\ opRun[f].status = "resolved"
            /\ OneNotification(opRun[f])

\* C18 (state part): createEntities calls insertMany and notifies only when
\* every element passed validation, and returns nothing otherwise; the
\* promise of updateEntities / removeEntities is rejected, without result,
\* in every state where one of its flows is rejected, and resolved only
\* when every flow is.
BatchAllOrNothing ==
    /\ opRun[0].kind = "createMany" =>
           /\ WriteIdx(opRun[0]) # {} => opRun[0].validated = "ok"
           /\ Notes(opRun[0], "cache") \cup Notes(opRun[0], "lifecycle") # {} => opRun[0].wrote
           /\ opRun[0].validated = "failed" =>
                  opRun[0].status = "rejected" /\ opRun[0].ret = NoReturn
    /\ opRun[0].kind \in BatchKinds =>
           /\ (\E g \in Ids : opRun[g].status = "rejected") =>
                  opRun[0].status = "rejected" /\ opRun[0].ret = NoReturn
           /\ opRun[0].status = "resolved" =>
                  \A g \in Ids : g <= opIn.size => opRun[g].status = "resolved"

\* C18 (step part): no step takes anything back: what a flow has invoked
\* and written stays in its log, also after the batch was rejected
NothingRolledBack ==
    \A f \in FlowIds :
        opRun[f].status # "unused" =>
            /\ Len(opRun'[f].log) >= Len(opRun[f].log)
            /\ SubSeq(opRun'[f].log, 1, Len(opRun[f].log)) = opRun[f].log
            /\ opRun[f].wrote => opRun'[f].wrote

\* C18: a batch fails as a whole and is not rolled back
BatchFailsAsWhole == []BatchAllOrNothing /\ [][NothingRolledBack]_vars

\* a batch is rejected for one entity while the write for another is done
BatchFailsAsWholeWitness ==
    /\ opRun[0].kind \in BatchKinds
    /\ opRun[0].status = "rejected"
    /\ opRun[0].error = "VALIDATION"
    /\ \E g, h \in Ids : /\ opRun[g].status = "rejected"
                         /\ opRun[h].wrote
                         /\ opRun[h].status = "resolved"

\* the order of the invocations of one flow: getAdapter before validation,
\* validation before the write, the write before the transformation, and
\* both before any notification, which follows a write that succeeded
Ordered(fl) ==
    /\ \A v \in Idx(fl, "validate") : \E a \in Idx(fl, "getAdapter") : a < v
    /\ \A w \in WriteIdx(fl) :
           /\ \E a \in Idx(fl, "getAdapter") : a < w
           /\ \A v \in Idx(fl, "validate") : v < w
    /\ \A t \in Idx(fl, "transform") : \A w \in WriteIdx(fl) : w < t
    /\ \A n \in Notes(fl, "cache") \cup Notes(fl, "lifecycle") :
           /\ \E w \in WriteIdx(fl) : w < n /\ fl.log[w].ok
           /\ \A t \in Idx(fl, "transform") : t < n
    /\ (fl.validated = "failed" \/ \E w \in WriteIdx(fl) : ~fl.log[w].ok) =>
           Notes(fl, "cache") \cup Notes(fl, "lifecycle") = {}
    /\ fl.validated = "failed" => WriteIdx(fl) = {}

WriteKinds == {"create", "createMany", "update", "replace", "remove", "clear"}

\* C19 as stated: every write operation keeps the order acquire, validate,
\* write, transform, notify, and its adapter write is invoked only after
\* its validation succeeded.
WriteOnlyAfterValidation ==
    \A f \in FlowIds :
        opRun[f].kind \in WriteKinds =>
            /\ Ordered(opRun[f])
            /\ WriteIdx(opRun[f]) # {} => opRun[f].validated = "ok"

\* C19 amended: every write operation keeps the order acquire, validate,
\* write, transform, notify; a failed validation or a failed write is
\* followed by no write and no notification; and the adapter write follows
\* a validation that succeeded in every operation that validates, which is
\* every one but clearEntities and an updateEntity with opts.raw.
WriteAfterValidationUnlessRaw ==
    \A f \in FlowIds :
        opRun[f].kind \in WriteKinds =>
            /\ Ordered(opRun[f])
            /\ WriteIdx(opRun[f]) # {} =>
                   \/ opRun[f].validated = "ok"
                   \/ opRun[f].kind = "clear" /\ opRun[f].validated = "no"
                   \/ opRun[f].kind = "update" /\ opIn.raw /\ opRun[f].validated = "skipped"

\* a replaceEntity went through every step and notified both channels
WriteAfterValidationUnlessRawWitness ==
    /\ opRun[0].kind = "replace"
    /\ opRun[0].status = "resolved"
    /\ Idx(opRun[0], "validate") # {}
    /\ Idx(opRun[0], "transform") # {}
    /\ Notes(opRun[0], "cache") # {}
    /\ Notes(opRun[0], "lifecycle") # {}

\* ---- _disconnect on its own: vocabulary of the claim ----
\* the pool without the entry that holds the adapter a
Without(m, a) == SeqFilter(m, {m[i] : i \in {j \in 1..Len(m) : m[j].adapter # a}})

\* every step of a release keeps the order remove, disconnect, hook, and a
\* step that changes the pool takes out the entry of the released adapter only
ReleaseOneStep ==
    /\ \A h \in Handles :
           /\ handle'[h].discCalls > handle[h].discCalls =>
                  /\ cfg.hasDisconnect
                  /\ h \notin PoolHandles
                  /\ \E c \in Calls : call[c].pc = "removedItem" /\ call[c].target = h
           /\ handle'[h].discHookCalls > handle[h].discHookCalls =>
                  /\ cfg.adapterDisconnected
                  /\ h \notin PoolHandles
                  /\ handle[h].discCalls = (IF cfg.hasDisconnect THEN 1 ELSE 0)
                  /\ handle'[h].discCalls = handle[h].discCalls
    /\ \A c \in Calls :
           (call[c].pc = "maintLoop" /\ call'[c].pc = "removedItem") =>
               /\ pool' = Without(pool, Head(call[c].closeable).adapter)
               /\ handle' = handle
    /\ pool' # pool => \E c \in Calls : call[c].pc = "maintLoop" /\ call'[c].pc = "removedItem"

\* a release that has ended has called disconnect once if the adapter has
\* it and the hook once if it is registered, and the adapter is not in the pool
ReleaseOneEnd ==
    \A c \in Calls :
        (call[c].pc = "maintained" /\ call[c].closed # <<>>) =>
            LET a == call[c].closed[1].adapter
            IN /\ a \notin PoolHandles
               /\ handle[a].discCalls = (IF cfg.hasDisconnect THEN 1 ELSE 0)
               /\ handle[a].discHookCalls = (IF cfg.adapterDisconnected THEN 1 ELSE 0)

\* C20: _disconnect first takes the entry of the adapter out of the pool,
\* then calls adapter.disconnect() if the adapter has it, then the
\* adapterDisconnected hook if one is registered; the entry is the one that
\* holds this adapter object, so every other entry stays, also a newer
\* entry under the key the adapter was created for.
ReleaseOne == []ReleaseOneEnd /\ [][ReleaseOneStep]_vars

\* the release of an adapter that is not in the pool any more ended with
\* the newer entry of its key still in the pool
ReleaseOneWitness ==
    /\ call[1].pc = "maintained"
    /\ call[1].closed # <<>>
    /\ LET a == call[1].closed[1].adapter
       IN /\ \E i \in 1..Len(pool) : pool[i].hash = handle[a].hash /\ pool[i].adapter > a
          /\ handle[a].discCalls = 1
          /\ handle[a].discHookCalls = 1

\* ---- field names to column names ----
ColumnOf(fields, k) == IF fields[k] # NoColumn THEN fields[k] ELSE k

\* no two keys of the object, or of an object it holds, name one column
RECURSIVE OneColumnPerKey(_, _)
OneColumnPerKey(fields, obj) ==
    /\ \A i, j \in 1..Len(obj) :
          ColumnOf(fields, obj[i].key) = ColumnOf(fields, obj[j].key) => i = j
    /\ \A i \in 1..Len(obj) :
          obj[i].val.kind = "plain" => OneColumnPerKey(fields, obj[i].val.obj)

\* the translation the text describes: every key replaced by its column,
\* at every depth, and every value that is not a plain object kept
RECURSIVE Translated(_, _)
Translated(fields, obj) ==
    [i \in 1..Len(obj) |->
        Entry(ColumnOf(fields, obj[i].key),
              IF obj[i].val.kind = "plain"
              THEN PlainValue(Translated(fields, obj[i].val.obj))
              ELSE obj[i].val)]

ConvDone == convRun.pc = "done"

\* C21: a query translated with recursive = true comes back with every
\* key replaced by its column name, at the top level and inside every
\* nested plain object, values that are not plain objects copied unchanged
\* and unknown names kept.
QueryKeysTranslatedAtEveryDepth ==
    (ConvDone /\ convIn.recursive /\ OneColumnPerKey(convIn.fields, convIn.query))
        => convRun.out = Translated(convIn.fields, convIn.query)

\* ---- C22 ----
NoConnectOnRemoved ==
    \A a \in removed : handle'[a].attempts = handle[a].attempts

\* C22: once the entry of an adapter is out of the pool (evicted by a
\* maintenance pass, released, or cleared by _disconnectAll), adapter.connect
\* is not invoked on that adapter again, also when the entry goes while the
\* creating call waits in maintenance or in the reconnect loop.
RemovedNeverConnects == [][NoConnectOnRemoved]_vars

\* ---- C23 ----
ConnectedOnce ==
    \A a \in Handles :
        /\ handle[a].connected <= 1
        /\ handle[a].connHookCalls <= handle[a].connected
        /\ handle[a].connHookCalls <= 1

HookBeforeReturn ==
    \A c \in Creators :
        call[c].pc = "done"
            => /\ handle[call[c].adapter].connected = 1
               /\ cfg.adapterConnected => handle[call[c].adapter].connHookCalls = 1

NoConnectOnConnected ==
    \A a \in Handles :
        handle[a].connected >= 1 => handle'[a].attempts = handle[a].attempts

\* C23: for every new entry adapter.connect succeeds at most once, the
\* adapterConnected hook is invoked once, after the successful connect and
\* before getAdapter returns to the creating call, and a failure of the hook
\* does not make adapter.connect run again on the connected adapter.
ConnectsAndHooksOnce ==
    /\ []ConnectedOnce
    /\ []HookBeforeReturn
    /\ [][NoConnectOnConnected]_vars

=============================================================================
